---- MODULE Spec2Model ----
(***************************************************************************)
(* Model of the video processing pipeline: the file watcher and the        *)
(* dashboard start pipeline runs on threads; each run goes through         *)
(* transcription, AI analysis, VideoProcessor.process_video (probe, crop   *)
(* planning, filter graph, render, outro) and cleanup.  External tools     *)
(* (ffmpeg, ffprobe, whisper, the LLM, os.remove) may succeed or fail.      *)
(***************************************************************************)
EXTENDS Integers, Naturals, Sequences, FiniteSets, TLC

VARIABLES
    mode,              \* which driver runs: "watch" (main.py watch_mode),
                       \* "dashboard" (app.py), "batch" (process_batch),
                       \* "startup" (FileWatcher.start), or a function
    cfg,               \* the configuration the run reads (config.json)
    llm_output,        \* the overlay instructions the analyzer delivers
    now,               \* wall clock, in whole seconds
    fs,                \* the file system: path -> "ok" | "partial"
    events,            \* watchdog events not yet delivered
    processing_files,  \* VideoFileHandler.processing_files
    processed_files,   \* VideoFileHandler.processed_files
    processing_status, \* app.py processing_status (is_processing, stage)
    pc,                \* per thread: position in the code
    video,             \* per thread: the input video path
    info,              \* per thread: video_info returned by the probe
    overlay_data,      \* per thread: overlay instructions from the analyzer
    crop,              \* per thread: (crop_w, crop_h, crop_x, crop_y)
    output_path,       \* per thread: process_video's output_path
    cmd,               \* per thread: the render invocation that was built
    stages,            \* per thread: the stages process_video has entered
    render_exit,       \* per thread: ffmpeg's exit status (-1: not run)
    raised,            \* per thread: the stage whose failure reached the caller
    vp_result,         \* per thread: process_video's current result path
    outro_log,         \* per thread: what _add_outro reported
    cleanups,          \* per thread: the cleanup_temp_files calls executed
    result,            \* per thread: what the driver's process_video returned
    fn_pc,             \* a function called on its own: "call" or "returned"
    fn_arg,            \* its argument
    fn_ret,            \* its return value
    an_pc,             \* position in the analysis steps of the workflow
    review_on,         \* general.review_ai_output
    response,          \* what the LLM call delivered
    instructions,      \* overlay_data['overlays'] as the workflow holds it
    clip_duration,     \* video_info['duration'] handed to the compiler
    compiled,          \* the drawtext stages _create_overlay_filter emitted
    video_paths,       \* process_batch: the list of videos supplied
    batch_pc,          \* process_batch: position in the code
    batch_i,           \* process_batch: the loop index i
    attempts,          \* process_batch: the process_video calls made so far
    results,           \* process_batch: results
    successful,        \* process_batch: successful
    failed,            \* process_batch: failed
    scan_pc,           \* _process_existing_files: position in the code
    listing,           \* the entries of os.listdir not yet looked at
    existing_files,    \* _process_existing_files: existing_files
    scan_i,            \* the index of the existing file being processed
    scan_handed        \* the files the start-up scan passed to the callback

vars == <<mode, cfg, llm_output, now, fs, events, processing_files,
          processed_files,
          processing_status, pc, video, info, overlay_data, crop, output_path,
          cmd, stages, render_exit, raised, vp_result, outro_log, cleanups,
          result, fn_pc, fn_arg, fn_ret, an_pc, review_on, response,
          instructions, clip_duration, compiled,
          video_paths, batch_pc, batch_i, attempts, results, successful, failed,
          scan_pc, listing, existing_files, scan_i, scan_handed>>

\* a function studied on its own
fnVars == <<fn_pc, fn_arg, fn_ret>>

\* the analysis steps studied on their own
analysisVars == <<an_pc, review_on, response, instructions, clip_duration,
                  compiled>>

\* process_batch's locals
batchVars == <<video_paths, batch_pc, batch_i, attempts, results, successful,
               failed>>

\* the start-up scan's locals
scanVars == <<scan_pc, listing, existing_files, scan_i, scan_handed>>

driverVars == <<batchVars, scanVars>>

\* what a pipeline run never changes
envVars == <<mode, cfg, llm_output, fnVars, analysisVars, driverVars>>

threadVars == <<video, info, overlay_data, crop, output_path, cmd, stages,
                render_exit, raised, vp_result, outro_log, cleanups, result>>

watchVars == <<events, processing_files, processed_files>>

-----------------------------------------------------------------------------
(* Bounds and inputs *)

\* the clock runs from 0 to MaxClock seconds
MaxClock == 1

\* worker threads (watcher threads, or dashboard background threads)
Threads == {1, 2}

None == "None"

\* a path is a directory, a file name made of "_"-joined parts, an extension
Path(dir, name, ext) == [dir |-> dir, name |-> name, ext |-> ext]

\* the video files dropped into the input folder
Videos == {Path("input", <<"a">>, "mp4"), Path("input", <<"a">>, "mov")}

\* a watchdog event for a file of the input folder
Event(type, path) == [event_type |-> type, path |-> path]

\* times are counted in hundredths of a second
Seconds(n) == n * 100

\* what ffprobe reports for a source video: a landscape and a portrait clip
SourceInfo(v) ==
    IF v.ext = "mp4"
    THEN [width |-> 1920, height |-> 1080, duration |-> Seconds(60) - 3]
    ELSE [width |-> 1080, height |-> 1920, duration |-> Seconds(60)]

\* a text is a sequence of characters: "a" stands for a letter, "E" for a
\* glyph matched by emoji_pattern, "NL" for a newline
Letters(n) == [k \in 1..n |-> "a"]

\* overlay instruction lists the analyzer may deliver
OverlayInputs ==
    { <<>>,
      <<[timestamp |-> Seconds(5), text |-> Letters(5), duration |-> Seconds(3)]>>,
      <<[timestamp |-> Seconds(100), text |-> Letters(4), duration |-> Seconds(3)]>> }

\* configurations; whether an asset exists matters only when it is enabled
Configs ==
    { c \in [logo_enabled : BOOLEAN, logo_exists : BOOLEAN,
             outro_enabled : BOOLEAN, outro_exists : BOOLEAN,
             delete_temp_files : BOOLEAN] :
        /\ (~c.logo_enabled => c.logo_exists)
        /\ (~c.outro_enabled => c.outro_exists) }

\* the default configuration: logo and outro enabled and present
DefaultConfig ==
    [logo_enabled |-> TRUE, logo_exists |-> TRUE, outro_enabled |-> TRUE,
     outro_exists |-> TRUE, delete_temp_files |-> TRUE]

-----------------------------------------------------------------------------
(* File system helpers *)

Exists(p) == p \in DOMAIN fs

Readable(p) == Exists(p) /\ fs[p] = "ok"

WriteFile(f, p, st) == (p :> st) @@ f

RemoveFile(f, p) == [q \in (DOMAIN f) \ {p} |-> f[q]]

\* Path(video_path).stem
Stem(v) == v.name

\* Path(p).stem of a path, kept as its "_"-joined parts
NameOf(p) == p.name

-----------------------------------------------------------------------------
(* VideoProcessor: pure planning functions *)

\* _calculate_crop_params: target_ratio = 9/16; int() truncates
CalculateCropParams(width, height) ==
    IF width * 16 > height * 9
    THEN LET crop_width == (height * 9) \div 16
         IN  [w |-> crop_width, h |-> height,
              x |-> (width - crop_width) \div 2, y |-> 0]
    ELSE LET crop_height == (width * 16) \div 9
         IN  [w |-> width, h |-> crop_height,
              x |-> 0, y |-> (height - crop_height) \div 2]

Max(a, b) == IF a >= b THEN a ELSE b

Min(a, b) == IF a <= b THEN a ELSE b

\* re.sub(emoji_pattern, '', s)
TextOnly(s) == SelectSeq(s, LAMBDA c : c # "E")

\* whitespace
IsBlank(c) == c \in {" ", "NL"}

\* the positions at which a word starts, and where the word starting at k ends
WordStarts(s) ==
    {k \in DOMAIN s : ~IsBlank(s[k]) /\ (k = 1 \/ IsBlank(s[k - 1]))}

WordEnd(s, k) ==
    CHOOSE m \in k..Len(s) :
        /\ \A j \in k..m : ~IsBlank(s[j])
        /\ (m = Len(s) \/ IsBlank(s[m + 1]))

RECURSIVE WordsFrom(_, _)
WordsFrom(s, starts) ==
    IF starts = {} THEN <<>>
    ELSE LET k == CHOOSE m \in starts : \A n \in starts : m <= n
         IN  <<SubSeq(s, k, WordEnd(s, k))>> \o WordsFrom(s, starts \ {k})

\* str.split(): the words between runs of whitespace
Split(s) == WordsFrom(s, WordStarts(s))

\* sep.join(parts)
RECURSIVE Join(_, _)
Join(sep, parts) ==
    IF parts = <<>> THEN <<>>
    ELSE IF Len(parts) = 1 THEN parts[1]
    ELSE parts[1] \o <<sep>> \o Join(sep, Tail(parts))

\* max_chars_per_line default of _wrap_text_for_vertical_video
MaxCharsPerLine == 20

Ellipsis == <<".", ".", ".">>

\* lines 149-170: fill lines word by word, counting text without emoji
RECURSIVE FillLines(_, _, _)
FillLines(words, lines, current_line) ==
    IF words = <<>>
    THEN IF current_line # <<>> THEN Append(lines, current_line) ELSE lines
    ELSE LET word == Head(words)
             word_text_only == TextOnly(word)
             current_line_text_only == TextOnly(current_line)
             potential_length ==
                 IF current_line # <<>>
                 THEN Len(current_line_text_only) + 1 + Len(word_text_only)
                 ELSE Len(word_text_only)
         IN  IF potential_length <= MaxCharsPerLine
             THEN FillLines(Tail(words), lines,
                            current_line
                              \o (IF current_line # <<>> THEN <<" ">> ELSE <<>>)
                              \o word)
             ELSE FillLines(Tail(words),
                            IF current_line # <<>>
                            THEN Append(lines, current_line) ELSE lines,
                            word)

\* lines 178-179: pop words until the line leaves room for the ellipsis
RECURSIVE TrimWords(_)
TrimWords(words_in_last_line) ==
    IF Len(TextOnly(Join(" ", words_in_last_line))) > MaxCharsPerLine - 3
    THEN TrimWords(SubSeq(words_in_last_line, 1, Len(words_in_last_line) - 1))
    ELSE words_in_last_line

\* mutant: every line is kept
LimitLinesKeepsAll(lines) == lines

\* lines 173-182: at most 2 lines, the second ending in an ellipsis
LimitLines(lines) ==
    IF Len(lines) > 2
    THEN LET last == lines[2]
         IN  << lines[1],
                IF Len(TextOnly(last)) > MaxCharsPerLine - 3
                THEN Join(" ", TrimWords(Split(last))) \o Ellipsis
                ELSE last \o Ellipsis >>
    ELSE lines

\* _wrap_text_for_vertical_video: the lines joined by newlines
WrapTextForVerticalVideo(text) ==
    Join("NL", LimitLines(FillLines(Split(text), <<>>, <<>>)))

\* line 236: escape ':', quotes and newlines for ffmpeg
EscapeChar(c) ==
    CASE c = ":"  -> <<"\\", ":">>
      [] c = "'"  -> <<"\\", "'">>
      [] c = "\"" -> <<"\\", "\"">>
      [] c = "NL" -> <<"\\", "n">>
      [] OTHER    -> <<c>>

RECURSIVE EscapeText(_)
EscapeText(s) ==
    IF s = <<>> THEN <<>>
    ELSE IF Len(s) = 1 THEN EscapeChar(s[1])
    ELSE LET half == Len(s) \div 2
         IN  EscapeText(SubSeq(s, 1, half)) \o EscapeText(SubSeq(s, half + 1, Len(s)))

\* f"{x:.1f}" of a non-negative time: the nearest tenth of a second (the
\* times used here never lie halfway between two tenths)
Format1f(x) == ((x + 5) \div 10) * 10

\* overlays.font_size default
FontSize == 48

\* one drawtext stage of _create_overlay_filter (lines 212-265)
DrawText(overlay, video_duration) ==
    LET timestamp  == overlay.timestamp
        duration   == IF timestamp + overlay.duration > video_duration
                      THEN video_duration - timestamp
                      ELSE overlay.duration
        wrapped_text == WrapTextForVerticalVideo(overlay.text)
        is_multiline == \E k \in DOMAIN wrapped_text : wrapped_text[k] = "NL"
        start_time == Max(0, timestamp)
        end_time   == start_time + duration
    IN  [op |-> "drawtext", text |-> EscapeText(wrapped_text),
         fontsize |-> IF is_multiline THEN (FontSize * 85) \div 100 ELSE FontSize,
         y |-> IF is_multiline THEN 65 ELSE 70,
         start_time |-> Format1f(start_time), end_time |-> Format1f(end_time)]

\* _create_overlay_filter: overlays at or past the end of the video are skipped
RECURSIVE CreateOverlayFilter(_, _)
CreateOverlayFilter(overlays, video_duration) ==
    IF overlays = <<>> THEN <<>>
    ELSE LET overlay == Head(overlays)
             rest    == CreateOverlayFilter(Tail(overlays), video_duration)
         IN  IF overlay.timestamp >= video_duration
             THEN rest
             ELSE <<DrawText(overlay, video_duration)>> \o rest

\* config defaults of the logo stage
LogoSizePercent == 15

LogoMargin == 20

NoFilter == <<>>

\* logo.position: config.get('logo', 'position', 'top-right')
LogoPosition(c) ==
    IF "logo_position" \in DOMAIN c THEN c.logo_position ELSE "top-right"

\* the keys of the positions dict (lines 298-304)
Positions == {"top-left", "top-right", "bottom-left", "bottom-right", "center"}

\* _create_logo_filter: "[0:v][1:v]overlay=x:y", placed from the width and
\* height it is given; a position that is no key falls back to 'top-right'
CreateLogoFilter(c, video_width, video_height) ==
    IF ~c.logo_enabled THEN NoFilter
    ELSE IF ~c.logo_exists THEN NoFilter
    ELSE LET position == LogoPosition(c)
             margin == LogoMargin
             logo_size == (Min(video_width, video_height) * LogoSizePercent) \div 100
             positions ==
                 [p \in Positions |->
                    CASE p = "top-left" ->
                           [x |-> margin, y |-> margin]
                      [] p = "top-right" ->
                           [x |-> video_width - logo_size - margin, y |-> margin]
                      [] p = "bottom-left" ->
                           [x |-> margin, y |-> video_height - logo_size - margin]
                      [] p = "bottom-right" ->
                           [x |-> video_width - logo_size - margin,
                            y |-> video_height - logo_size - margin]
                      [] p = "center" ->
                           [x |-> (video_width - logo_size) \div 2,
                            y |-> (video_height - logo_size) \div 2]]
             pos == IF position \in Positions THEN positions[position]
                    ELSE positions["top-right"]
         IN  <<[ins |-> <<"0:v", "1:v">>, op |-> "overlay",
                x |-> pos.x, y |-> pos.y]>>

\* video.output_resolution default '1080x1920'
TargetWidth == 1080

TargetHeight == 1920

\* process_video lines 346-353: the logo input and logo filter
LogoFilterFor(c, cr) ==
    IF c.logo_enabled /\ c.logo_exists
    THEN CreateLogoFilter(c, cr.w, cr.h)
    ELSE NoFilter

\* mutant: the label is left as it is
ReplaceNothing(ins, old, new) == ins

\* logo_filter.replace('[0:v]', '[cropped]') on the input labels of a filter
ReplaceLabel(ins, old, new) ==
    [k \in DOMAIN ins |-> IF ins[k] = old THEN new ELSE ins[k]]

\* process_video lines 355-392: the filters list and the output label
BuildFilters(c, cr, overlay_filter) ==
    LET base_ops == <<[op |-> "crop", w |-> cr.w, h |-> cr.h, x |-> cr.x, y |-> cr.y]>>
                    \o (IF cr.w # TargetWidth \/ cr.h # TargetHeight
                        THEN <<[op |-> "scale", w |-> TargetWidth, h |-> TargetHeight]>>
                        ELSE <<>>)
        logo_filter == LogoFilterFor(c, cr)
        first == IF logo_filter # NoFilter
                 THEN << [ins |-> <<"0:v">>, ops |-> base_ops, out |-> "cropped"],
                         [ins |-> ReplaceLabel(logo_filter[1].ins, "0:v", "cropped"),
                          ops |-> <<[op |-> logo_filter[1].op,
                                     x |-> logo_filter[1].x,
                                     y |-> logo_filter[1].y]>>,
                          out |-> "with_logo"] >>
                 ELSE << [ins |-> <<"0:v">>, ops |-> base_ops, out |-> "processed"] >>
        video_output == IF logo_filter # NoFilter THEN "with_logo" ELSE "processed"
    IN  IF overlay_filter # <<>>
        THEN [filters |-> Append(first, [ins |-> <<video_output>>,
                                         ops |-> overlay_filter, out |-> "final"]),
              video_output |-> "final"]
        ELSE [filters |-> first, video_output |-> video_output]

\* logo.path default 'assets/logo.png'
LogoPath == Path("assets", <<"logo">>, "png")

\* process_video lines 341-412: the ffmpeg invocation
BuildCommand(c, v, cr, overlays, video_duration, out) ==
    LET overlay_filter == CreateOverlayFilter(overlays, video_duration)
        plan == BuildFilters(c, cr, overlay_filter)
        inputs == <<v>> \o (IF c.logo_enabled /\ c.logo_exists THEN <<LogoPath>> ELSE <<>>)
        mapping == IF plan.filters # <<>>
                   THEN [filter_complex |-> plan.filters,
                         maps |-> <<plan.video_output, "0:a">>,
                         options |-> <<>>]
                   ELSE [filter_complex |-> <<>>, maps |-> <<>>,
                         options |-> <<[opt |-> "c:v", val |-> "copy"],
                                       [opt |-> "c:a", val |-> "copy"]>>]
    IN  [inputs |-> inputs,
         filter_complex |-> mapping.filter_complex,
         maps |-> mapping.maps,
         options |-> mapping.options \o
                     <<[opt |-> "c:v", val |-> "libx264"],
                       [opt |-> "c:a", val |-> "aac"]>>,
         output |-> out]

\* datetime.now().strftime("%Y%m%d_%H%M%S"): one-second resolution
Timestamp(t) == ToString(t)

\* <output_dir>/<video_name>_processed_<timestamp>.mp4
OutputPath(v, t) == Path("output", Stem(v) \o <<"processed", Timestamp(t)>>, "mp4")

\* _add_outro: <output_dir>/<base_name>_with_outro.mp4
FinalPath(p) == Path(p.dir, NameOf(p) \o <<"with", "outro">>, "mp4")

\* _add_outro: <temp_dir>/temp_outro_<base_name>.mp4
TempOutro(p) == Path("temp", <<"temp", "outro">> \o NameOf(p), "mp4")

\* transcription temp files
AudioPath(v) == Path("temp", Stem(v) \o <<"audio">>, "wav")

TranscriptPath(v) == Path("temp", Stem(v) \o <<"transcript">>, "txt")

\* save_overlay_instructions
OverlaysJson(v) == Path("temp", Stem(v) \o <<"overlays">>, "json")

-----------------------------------------------------------------------------
(* LLMAnalyzer: the JSON the model answers with, and its validation *)

\* JSON values of an instruction's fields; JBig is an integer too large for
\* float(), JMissing an absent key
JNum(n) == [kind |-> "number", num |-> n, str |-> <<>>]

JBig == [kind |-> "bigint", num |-> 0, str |-> <<>>]

JStr(s) == [kind |-> "string", num |-> 0, str |-> s]

JNull == [kind |-> "null", num |-> 0, str |-> <<>>]

JMissing == [kind |-> "missing", num |-> 0, str |-> <<>>]

\* an element of the 'overlays' list: a JSON object, or anything else
Item(ts, text, dur) ==
    [kind |-> "object", timestamp |-> ts, text |-> text, duration |-> dur]

NotADict ==
    [kind |-> "other", timestamp |-> JMissing, text |-> JMissing,
     duration |-> JMissing]

\* dict.get(key, default)
Get(v, default) == IF v.kind = "missing" THEN default ELSE v

\* isinstance(v, (int, float))
IsNumber(v) == v.kind \in {"number", "bigint"}

\* str.strip()
RECURSIVE LStrip(_)
LStrip(s) ==
    IF s # <<>> /\ Head(s) \in {" ", "NL"} THEN LStrip(Tail(s)) ELSE s

RECURSIVE RStrip(_)
RStrip(s) ==
    IF s # <<>> /\ s[Len(s)] \in {" ", "NL"}
    THEN RStrip(SubSeq(s, 1, Len(s) - 1))
    ELSE s

Strip(s) == RStrip(LStrip(s))

\* lines 178-180: texts longer than 100 characters are cut to 97 and "..."
MaxOverlayText == 100

TruncateText(text) ==
    IF Len(text) > MaxOverlayText
    THEN SubSeq(text, 1, MaxOverlayText - 3) \o Ellipsis
    ELSE text

\* the duration default of 3.0 seconds
DefaultDuration == Seconds(3)

\* lines 163-176: the checks an element must pass not to be skipped
Keeps(overlay) ==
    LET timestamp == Get(overlay.timestamp, JNum(0))
        text      == Get(overlay.text, JStr(<<>>))
    IN  /\ overlay.kind = "object"
        /\ IsNumber(timestamp)
        /\ ~(timestamp.kind = "number" /\ timestamp.num < 0)
        /\ text.kind = "string"
        /\ Strip(text.str) # <<>>

\* lines 168 and 183-184: the duration after validation
EffectiveDuration(overlay) ==
    LET duration == Get(overlay.duration, JNum(DefaultDuration))
    IN  IF ~IsNumber(duration) \/ (duration.kind = "number" /\ duration.num <= 0)
        THEN JNum(DefaultDuration)
        ELSE duration

\* lines 187 and 189: float() of an integer beyond the float range raises
\* OverflowError
FloatRaises(overlay) ==
    \/ Get(overlay.timestamp, JNum(0)).kind = "bigint"
    \/ EffectiveDuration(overlay).kind = "bigint"

\* lines 186-190: the instruction appended for an element that is kept
Cleaned(overlay) ==
    [timestamp |-> Get(overlay.timestamp, JNum(0)).num,
     text      |-> Strip(TruncateText(overlay.text.str)),
     duration  |-> EffectiveDuration(overlay).num]

\* lines 161-190: the loop over the elements
RECURSIVE CleanAll(_)
CleanAll(items) ==
    IF items = <<>> THEN <<>>
    ELSE (IF Keeps(Head(items)) THEN <<Cleaned(Head(items))>> ELSE <<>>)
         \o CleanAll(Tail(items))

\* list.sort(key=timestamp) is stable: x goes after every element whose
\* timestamp is not larger
InsertByTimestamp(sorted, x) ==
    LET k == Cardinality({m \in DOMAIN sorted : sorted[m].timestamp <= x.timestamp})
    IN  SubSeq(sorted, 1, k) \o <<x>> \o SubSeq(sorted, k + 1, Len(sorted))

\* mutant: the instructions stay in the order the LLM gave them
KeepInputOrder(s) == s

\* line 193: validated_overlays.sort(key=lambda x: x['timestamp'])
RECURSIVE SortByTimestamp(_)
SortByTimestamp(s) ==
    IF s = <<>> THEN <<>>
    ELSE InsertByTimestamp(SortByTimestamp(SubSeq(s, 1, Len(s) - 1)), s[Len(s)])

\* the parsed JSON value: a dict with an 'overlays' list ("dict"); a value
\* in which 'overlays' is not found ("no_overlays_key": a dict without the
\* key, a list, a string); a value that supports no membership test
\* ("not_a_container": a number, true, null); a dict whose 'overlays' value
\* cannot be iterated ("overlays_not_iterable": a number, null)
Parsed(kind, items) == [kind |-> kind, overlays |-> items]

\* the LLM call: a response holding JSON, a response from which no JSON can
\* be extracted, or a request that raises
Response(kind, data) == [kind |-> kind, data |-> data]

NoResponse == Response("none", Parsed("no_overlays_key", <<>>))

\* the overlay texts built into the analyzer
FinancialTip == <<"E", " ">> \o Letters(9) \o <<" ">> \o Letters(4)

WatchForTips == <<"E", " ">> \o Letters(5) \o <<" ">> \o Letters(3) \o <<" ">> \o Letters(5)

\* _extract_json_from_response: the parsed JSON, or the basic response
ExtractJsonFromResponse(r) ==
    IF r.kind = "json"
    THEN r.data
    ELSE Parsed("dict", <<Item(JNum(Seconds(5)), JStr(FinancialTip),
                               JNum(Seconds(3)))>>)

\* the ways _validate_overlay_data raises: TypeError at line 156 or 161,
\* OverflowError at line 187 or 189
ValidationRaises(data) ==
    \/ data.kind \in {"not_a_container", "overlays_not_iterable"}
    \/ /\ data.kind = "dict"
       /\ \E k \in DOMAIN data.overlays :
             Keeps(data.overlays[k]) /\ FloatRaises(data.overlays[k])

\* _validate_overlay_data, when it returns
ValidateOverlayData(data) ==
    IF data.kind # "dict" THEN <<>>
    ELSE SortByTimestamp(CleanAll(data.overlays))

\* analyze_transcript lines 239-247: the fallback overlay
FallbackOverlays ==
    <<[timestamp |-> Seconds(3), text |-> WatchForTips, duration |-> Seconds(3)]>>

\* analyze_transcript: whatever is raised inside ends in the fallback
AnalyzeTranscript(r) ==
    IF r.kind = "call_failed" THEN FallbackOverlays
    ELSE LET data == ExtractJsonFromResponse(r)
         IN  IF ValidationRaises(data) THEN FallbackOverlays
             ELSE ValidateOverlayData(data)

-----------------------------------------------------------------------------
(* Initial state *)

NoPath == Path("none", <<>>, "")

NoInfo == [width |-> 0, height |-> 0, duration |-> 0]

NoCrop == [w |-> 0, h |-> 0, x |-> 0, y |-> 0]

NoCmd == [inputs |-> <<>>, filter_complex |-> <<>>, maps |-> <<>>,
          options |-> <<>>, output |-> NoPath]

\* no thread has started
ThreadFieldsIdle ==
    /\ pc = [i \in Threads |-> "idle"]
    /\ video = [i \in Threads |-> NoPath]
    /\ info = [i \in Threads |-> NoInfo]
    /\ overlay_data = [i \in Threads |-> <<>>]
    /\ crop = [i \in Threads |-> NoCrop]
    /\ output_path = [i \in Threads |-> NoPath]
    /\ cmd = [i \in Threads |-> NoCmd]
    /\ stages = [i \in Threads |-> <<>>]
    /\ render_exit = [i \in Threads |-> -1]
    /\ raised = [i \in Threads |-> None]
    /\ vp_result = [i \in Threads |-> NoPath]
    /\ outro_log = [i \in Threads |-> None]
    /\ cleanups = [i \in Threads |-> {}]
    /\ result = [i \in Threads |-> NoPath]

\* no pipeline run has started
ThreadsIdle ==
    /\ now = 0
    /\ fs = [v \in Videos |-> "ok"]
    /\ processing_files = {}
    /\ processed_files = {}
    /\ processing_status = [is_processing |-> FALSE, stage |-> "Idle"]
    /\ ThreadFieldsIdle

\* process_batch does not run
BatchIdle ==
    /\ video_paths = <<>>
    /\ batch_pc = "unused"
    /\ batch_i = 0
    /\ attempts = <<>>
    /\ results = <<>>
    /\ successful = 0
    /\ failed = 0

\* the start-up scan does not run
ScanIdle ==
    /\ scan_pc = "unused"
    /\ listing = {}
    /\ existing_files = <<>>
    /\ scan_i = 0
    /\ scan_handed = <<>>

DriversIdle == BatchIdle /\ ScanIdle

\* no function is studied on its own
FnIdle ==
    /\ fn_pc = "unused"
    /\ fn_arg = <<>>
    /\ fn_ret = <<>>

AnalysisIdle ==
    /\ an_pc = "unused"
    /\ review_on = FALSE
    /\ response = NoResponse
    /\ instructions = <<>>
    /\ clip_duration = 0
    /\ compiled = <<>>

InitCommon ==
    /\ cfg \in Configs
    /\ llm_output \in OverlayInputs
    /\ ThreadsIdle
    /\ DriversIdle
    /\ FnIdle
    /\ AnalysisIdle

\* main.py watch mode: the videos are dropped into the input folder
Init ==
    /\ mode = "watch"
    /\ events = {Event("created", v) : v \in Videos}
    /\ InitCommon

\* an exception leaving the pipeline reaches the driver's except clause
\* VideoProcessingWorkflow.process_video is the driver (watch mode, batch)
InWorkflow == mode \in {"watch", "batch"}

ExceptPc == IF InWorkflow THEN "wf_except" ELSE "bg_except"

Goto(i, label) == pc' = [pc EXCEPT ![i] = label]

\* the clock is read only when the output file name is generated; ticks
\* after the last thread has read it are not observable
ClockMatters == \E i \in Threads :
    pc[i] \in {"idle", "waiting", "bg_start", "transcribe", "analyze",
               "vp_probe", "vp_crop"}

Tick ==
    /\ now < MaxClock
    /\ ClockMatters
    /\ now' = now + 1
    /\ UNCHANGED <<envVars, fs, watchVars, processing_status, pc, threadVars>>

-----------------------------------------------------------------------------
(* File watcher: VideoFileHandler *)

\* _should_process_file (videos have supported extensions and plain names)
ShouldProcessFile(v) ==
    /\ v \notin processing_files
    /\ Stem(v) \notin processed_files

\* the lowest thread slot not yet used
FreeThread(i) == pc[i] = "idle" /\ \A j \in Threads : j < i => pc[j] # "idle"

\* on_created lines 134-148: a thread is started for a file that should be
\* processed
StartThreadFor(v) ==
    /\ IF ShouldProcessFile(v) /\ \E i \in Threads : FreeThread(i)
       THEN \E i \in Threads :
               /\ FreeThread(i)
               /\ processing_files' = processing_files \cup {v}
               /\ video' = [video EXCEPT ![i] = v]
               /\ Goto(i, "waiting")
       ELSE UNCHANGED <<processing_files, video, pc>>
    /\ UNCHANGED <<envVars, now, fs, processed_files, processing_status,
                   info, overlay_data, crop, output_path, cmd, stages, raised,
                   vp_result, outro_log, cleanups, result,
                   render_exit>>

\* on_created: the observer thread delivers a "created" event
OnCreated(v) ==
    /\ mode \in {"watch", "startup"}
    /\ Event("created", v) \in events
    /\ events' = events \ {Event("created", v)}
    /\ StartThreadFor(v)

\* on_moved: a "moved" event is handled as the creation of its destination
OnMoved(v) ==
    /\ mode = "startup"
    /\ Event("moved", v) \in events
    /\ events' = events \ {Event("moved", v)}
    /\ StartThreadFor(v)

\* _process_file_when_ready up to the callback: wait for the file, record its
\* stem as processed, call workflow.process_video
FileReady(i) ==
    /\ pc[i] = "waiting"
    /\ \/ /\ processed_files' = processed_files \cup {Stem(video[i])}
          /\ Goto(i, "transcribe")
          /\ UNCHANGED processing_files
       \/ \* not ready within the timeout: return through the finally clause
          /\ processing_files' = processing_files \ {video[i]}
          /\ Goto(i, "not_ready")
          /\ UNCHANGED processed_files
    /\ UNCHANGED <<envVars, now, fs, events, processing_status, threadVars>>

-----------------------------------------------------------------------------
(* Steps 1 and 2: transcription and AI analysis *)

\* app.py update_progress (lines 136-138), called by the dashboard's
\* ProgressCapturingWorkflow only: the shared stage is overwritten
UpdateProgress(stage) ==
    processing_status' = IF mode = "dashboard"
                         THEN [processing_status EXCEPT !.stage = stage]
                         ELSE processing_status

\* TranscriptionService.process_video: extract audio, transcribe, save; the
\* audio file is removed in the finally clause when cleanup is enabled
Transcription(i) ==
    /\ pc[i] = "transcribe"
    /\ \E outcome \in {"ok", "extract_fails", "transcribe_fails"} :
          LET audio == IF cfg.delete_temp_files
                       THEN RemoveFile(fs, AudioPath(video[i]))
                       ELSE WriteFile(fs, AudioPath(video[i]), "ok")
          IN  CASE outcome = "ok" ->
                      /\ fs' = WriteFile(audio, TranscriptPath(video[i]), "ok")
                      /\ UpdateProgress("Analyzing content with AI...")
                      /\ Goto(i, "analyze")
                [] outcome = "extract_fails" ->
                      /\ fs' = fs
                      /\ UpdateProgress("Extracting audio...")
                      /\ Goto(i, ExceptPc)
                [] outcome = "transcribe_fails" ->
                      /\ fs' = audio
                      /\ UpdateProgress("Extracting audio...")
                      /\ Goto(i, ExceptPc)
    /\ UNCHANGED <<envVars, now, watchVars, threadVars>>

\* analyze_transcript never raises (it falls back); the workflow then saves
\* the overlay instructions, the dashboard job does not
AIAnalysis(i) ==
    /\ pc[i] = "analyze"
    /\ overlay_data' = [overlay_data EXCEPT ![i] = llm_output]
    /\ LET saved == IF InWorkflow
                    THEN WriteFile(fs, OverlaysJson(video[i]), "ok")
                    ELSE fs
       IN  \/ /\ fs' = saved
              /\ UpdateProgress("Processing video...")
              /\ Goto(i, "vp_probe")
           \/ \* saving the instructions raises
              /\ fs' = fs
              /\ UNCHANGED processing_status
              /\ Goto(i, ExceptPc)
           \/ \* generating or saving the caption raises
              /\ fs' = saved
              /\ UpdateProgress("Generating social media caption...")
              /\ Goto(i, ExceptPc)
    /\ UNCHANGED <<envVars, now, watchVars, video, info,
                   crop, output_path, cmd, stages, raised, vp_result, outro_log,
                   cleanups, result,
                   render_exit>>

-----------------------------------------------------------------------------
(* Step 3: VideoProcessor.process_video *)

Enter(i, stage) == stages' = [stages EXCEPT ![i] = Append(@, stage)]

\* the exception handlers of process_video re-raise (lines 438-443)
Raise(i, stage) ==
    /\ raised' = [raised EXCEPT ![i] = stage]
    /\ Goto(i, ExceptPc)

\* _get_video_info on the source (line 326)
Probe(i) ==
    /\ pc[i] = "vp_probe"
    /\ Enter(i, "probe")
    /\ \/ /\ Readable(video[i])
          /\ info' = [info EXCEPT ![i] = SourceInfo(video[i])]
          /\ Goto(i, "vp_crop")
          /\ UNCHANGED raised
       \/ /\ Raise(i, "probe")
          /\ UNCHANGED info
    /\ UNCHANGED <<envVars, now, fs, watchVars, processing_status, video,
                   overlay_data, crop, output_path, cmd, vp_result, outro_log,
                   cleanups, result,
                   render_exit>>

\* crop parameters and the timestamped output file name (lines 329-338)
CropPlan(i) ==
    /\ pc[i] = "vp_crop"
    /\ Enter(i, "crop")
    /\ crop' = [crop EXCEPT ![i] = CalculateCropParams(info[i].width, info[i].height)]
    /\ output_path' = [output_path EXCEPT ![i] = OutputPath(video[i], now)]
    /\ Goto(i, "vp_graph")
    /\ UNCHANGED <<envVars, now, fs, watchVars, processing_status, video,
                   info, overlay_data, cmd, raised, vp_result, outro_log, cleanups, result,
                   render_exit>>

\* overlay compilation, filter graph assembly and the command (lines 340-412)
BuildGraph(i) ==
    /\ pc[i] = "vp_graph"
    /\ Enter(i, "graph")
    /\ cmd' = [cmd EXCEPT ![i] = BuildCommand(cfg, video[i], crop[i], overlay_data[i],
                                              info[i].duration, output_path[i])]
    /\ Goto(i, "vp_render")
    /\ UNCHANGED <<envVars, now, fs, watchVars, processing_status, video,
                   info, overlay_data, crop, output_path, raised, vp_result,
                   outro_log, cleanups, result,
                   render_exit>>

\* the status of a file that is still there changes; an unlinked one stays gone
SetStatus(f, p, st) == IF p \in DOMAIN f THEN [f EXCEPT ![p] = st] ELSE f

\* subprocess.run(cmd) starts: ffmpeg -y opens (truncates) the output file,
\* or exits non-zero before writing anything
RenderStart(i) ==
    /\ pc[i] = "vp_render"
    /\ Enter(i, "render")
    /\ \/ /\ Readable(video[i])
          /\ fs' = WriteFile(fs, cmd[i].output, "partial")
          /\ Goto(i, "vp_rendering")
          /\ UNCHANGED <<raised, render_exit>>
       \/ /\ render_exit' = [render_exit EXCEPT ![i] = 1]
          /\ Raise(i, "render")
          /\ UNCHANGED fs
    /\ UNCHANGED <<envVars, now, watchVars, processing_status, video, info,
                   overlay_data, crop, output_path, cmd, vp_result, outro_log,
                   cleanups, result>>

\* mutant: the outro step is entered whether or not outro is enabled
AfterRenderAlwaysOutro(c) == "outro_check"

\* where process_video goes after a successful render (lines 432-436)
AfterRender(c) == IF c.outro_enabled THEN "outro_check" ELSE "vp_return"

\* subprocess.run(cmd, check=True) returns: exit 0, or CalledProcessError
RenderExit(i) ==
    /\ pc[i] = "vp_rendering"
    /\ \/ /\ render_exit' = [render_exit EXCEPT ![i] = 0]
          /\ fs' = SetStatus(fs, cmd[i].output, "ok")
          /\ vp_result' = [vp_result EXCEPT ![i] = output_path[i]]
          /\ Goto(i, AfterRender(cfg))
          /\ UNCHANGED raised
       \/ /\ render_exit' = [render_exit EXCEPT ![i] = 1]
          /\ Raise(i, "render")
          /\ UNCHANGED <<fs, vp_result>>
    /\ UNCHANGED <<envVars, now, watchVars, processing_status, video, info,
                   overlay_data, crop, output_path, cmd, stages, outro_log,
                   cleanups, result>>

-----------------------------------------------------------------------------
(* VideoProcessor._add_outro(video_path), video_path = output_path[i] *)

\* return p from _add_outro, reporting what happened
OutroReturn(i, p, what) ==
    /\ vp_result' = [vp_result EXCEPT ![i] = p]
    /\ outro_log' = [outro_log EXCEPT ![i] = what]
    /\ Goto(i, "vp_return")

\* mutant: an except clause that returns the path of the stitched file
SoftFailReturnsFinalPath(i, what) ==
    OutroReturn(i, FinalPath(output_path[i]), what)

\* the except clauses of _add_outro (lines 541-546): log, return video_path
SoftFail(i, what) == OutroReturn(i, output_path[i], what)

OutroContinue(i, label) ==
    /\ Goto(i, label)
    /\ UNCHANGED <<vp_result, outro_log>>

\* lines 455-460: a missing outro asset returns the video unchanged
OutroCheck(i) ==
    /\ pc[i] = "outro_check"
    /\ Enter(i, "outro")
    /\ IF ~cfg.outro_exists
       THEN OutroReturn(i, output_path[i], "asset_missing")
       ELSE OutroContinue(i, "outro_probe")
    /\ UNCHANGED <<envVars, now, fs, watchVars, processing_status, video,
                   info, overlay_data, crop, output_path, cmd, raised,
                   cleanups, result,
                   render_exit>>

\* lines 471-477: probe the rendered clip and the outro asset
OutroProbe(i) ==
    /\ pc[i] = "outro_probe"
    /\ \/ /\ Readable(output_path[i])
          /\ OutroContinue(i, "outro_normalize")
       \/ SoftFail(i, "probe_failed")
    /\ UNCHANGED <<envVars, now, fs, watchVars, processing_status, video,
                   info, overlay_data, crop, output_path, cmd, stages, raised,
                   cleanups, result,
                   render_exit>>

\* lines 485-509: write the normalized outro to temp_outro_<base>.mp4
OutroNormalize(i) ==
    /\ pc[i] = "outro_normalize"
    /\ \/ /\ fs' = WriteFile(fs, TempOutro(output_path[i]), "ok")
          /\ OutroContinue(i, "outro_concat")
       \/ /\ fs' = WriteFile(fs, TempOutro(output_path[i]), "partial")
          /\ SoftFail(i, "normalize_failed")
    /\ UNCHANGED <<envVars, now, watchVars, processing_status, video, info,
                   overlay_data, crop, output_path, cmd, stages, raised,
                   cleanups, result,
                   render_exit>>

\* lines 511-528: concatenate into <base>_with_outro.mp4
OutroConcat(i) ==
    /\ pc[i] = "outro_concat"
    /\ \/ /\ Readable(output_path[i])
          /\ Readable(TempOutro(output_path[i]))
          /\ fs' = WriteFile(fs, FinalPath(output_path[i]), "ok")
          /\ OutroContinue(i, "outro_cleanup")
       \/ /\ fs' = WriteFile(fs, FinalPath(output_path[i]), "partial")
          /\ SoftFail(i, "concat_failed")
    /\ UNCHANGED <<envVars, now, watchVars, processing_status, video, info,
                   overlay_data, crop, output_path, cmd, stages, raised,
                   cleanups, result,
                   render_exit>>

\* mutant: the pre-outro file is deleted whatever the configuration says
RemoveAfterStitchAlways(f, c, video_path) ==
    RemoveFile(RemoveFile(f, TempOutro(video_path)), video_path)

\* lines 530-536: the files left once both deletions have been carried out
RemoveAfterStitch(f, c, video_path) ==
    LET removed == RemoveFile(f, TempOutro(video_path))
    IN  IF c.delete_temp_files THEN RemoveFile(removed, video_path) ELSE removed

\* lines 530-546: delete the intermediate, and the pre-outro file when
\* cleanup is enabled; an os.remove that raises returns the pre-outro path
OutroCleanup(i) ==
    /\ pc[i] = "outro_cleanup"
    /\ LET video_path == output_path[i]
           temp_outro == TempOutro(video_path)
           removed    == RemoveFile(fs, temp_outro)
       IN  \/ /\ Exists(temp_outro)
              /\ fs' = fs
              /\ SoftFail(i, "cleanup_failed")
           \/ /\ cfg.delete_temp_files
              /\ fs' = removed
              /\ SoftFail(i, "cleanup_failed")
           \/ /\ cfg.delete_temp_files => Exists(video_path)
              /\ fs' = RemoveAfterStitch(fs, cfg, video_path)
              /\ OutroReturn(i, FinalPath(video_path), "stitched")
    /\ UNCHANGED <<envVars, now, watchVars, processing_status, video, info,
                   overlay_data, crop, output_path, cmd, stages, raised,
                   cleanups, result,
                   render_exit>>

-----------------------------------------------------------------------------
(* Cleanup of temporary artifacts *)

\* TranscriptionService.cleanup_temp_files: os.remove is not guarded
TranscriptionTemps(v) == {AudioPath(v), TranscriptPath(v)}

TranscriptionCleanup(f, v) ==
    [q \in (DOMAIN f) \ TranscriptionTemps(v) |-> f[q]]

\* VideoProcessor.cleanup_temp_files: glob <video_name>_*.json,
\* <video_name>_*.txt and concat_list.txt in the temp folder
IsPrefix(s, t) == Len(s) <= Len(t) /\ SubSeq(t, 1, Len(s)) = s

ConcatList == Path("temp", <<"concat", "list">>, "txt")

GlobMatches(v, p) ==
    \/ /\ p.dir = "temp"
       /\ p.ext \in {"json", "txt"}
       /\ Len(p.name) > Len(Stem(v))
       /\ IsPrefix(Stem(v), p.name)
    \/ p = ConcatList

\* the files a cleanup of v removes; each os.remove may fail with OSError,
\* which is swallowed, so any subset of the matches may survive
VideoProcessorCleanups(f, v) ==
    LET matches == {p \in DOMAIN f : GlobMatches(v, p)}
    IN  {[q \in (DOMAIN f) \ gone |-> f[q]] : gone \in {matches, {}}}

-----------------------------------------------------------------------------
(* VideoProcessingWorkflow.process_video: after step 3 *)

\* the thread's finally clause of _process_file_when_ready
Discard(i) == processing_files' = processing_files \ {video[i]}

\* lines 122-143: statistics, cleanup when enabled, return output_path
WorkflowFinish(i) ==
    /\ InWorkflow
    /\ pc[i] = "vp_return"
    /\ IF ~cfg.delete_temp_files
       THEN /\ result' = [result EXCEPT ![i] = vp_result[i]]
            /\ Goto(i, "done")
            /\ Discard(i)
            /\ UNCHANGED <<fs, cleanups>>
       ELSE \/ \* os.remove raises inside transcription.cleanup_temp_files
               /\ \E p \in TranscriptionTemps(video[i]) : Exists(p)
               /\ cleanups' = [cleanups EXCEPT ![i] = @ \cup {"transcription"}]
               /\ Goto(i, "wf_except")
               /\ UNCHANGED <<fs, result, processing_files>>
            \/ /\ \E f \in VideoProcessorCleanups(
                               TranscriptionCleanup(fs, video[i]), video[i]) :
                      fs' = f
               /\ cleanups' = [cleanups EXCEPT ![i] =
                                  @ \cup {"transcription", "video_processor"}]
               /\ result' = [result EXCEPT ![i] = vp_result[i]]
               /\ Goto(i, "done")
               /\ Discard(i)
    /\ UNCHANGED <<envVars, now, events, processed_files, processing_status,
                   video, info, overlay_data, crop, output_path, cmd, stages,
                   raised, vp_result, outro_log,
                   render_exit>>

\* lines 145-159: log, try both cleanups, swallow what they raise, return None
WorkflowExcept(i) ==
    /\ InWorkflow
    /\ pc[i] = "wf_except"
    /\ \/ \* os.remove raises inside transcription.cleanup_temp_files
          /\ cfg.delete_temp_files
          /\ \E p \in TranscriptionTemps(video[i]) : Exists(p)
          /\ cleanups' = [cleanups EXCEPT ![i] = @ \cup {"transcription"}]
          /\ fs' = fs
       \/ /\ cleanups' = [cleanups EXCEPT ![i] =
                             @ \cup {"transcription", "video_processor"}]
          /\ IF cfg.delete_temp_files
             THEN \E f \in VideoProcessorCleanups(
                              TranscriptionCleanup(fs, video[i]), video[i]) :
                     fs' = f
             ELSE fs' = fs
    /\ result' = [result EXCEPT ![i] = NoPath]
    /\ Goto(i, "failed")
    /\ Discard(i)
    /\ UNCHANGED <<envVars, now, events, processed_files, processing_status,
                   video, info, overlay_data, crop, output_path, cmd, stages,
                   raised, vp_result, outro_log,
                   render_exit>>

Pipeline(i) ==
    \/ Transcription(i)
    \/ AIAnalysis(i)
    \/ Probe(i)
    \/ CropPlan(i)
    \/ BuildGraph(i)
    \/ RenderStart(i)
    \/ RenderExit(i)
    \/ OutroCheck(i)
    \/ OutroProbe(i)
    \/ OutroNormalize(i)
    \/ OutroConcat(i)
    \/ OutroCleanup(i)

Next ==
    \/ Tick
    \/ \E v \in Videos : OnCreated(v)
    \/ \E i \in Threads :
          \/ FileReady(i)
          \/ Pipeline(i)
          \/ WorkflowFinish(i)
          \/ WorkflowExcept(i)

Spec == Init /\ [][Next]_vars

-----------------------------------------------------------------------------
(* VideoProcessingWorkflow.process_batch: the videos one after the other on *)
(* the calling thread (thread 1)                                            *)

\* the number of videos supplied
MaxBatch == 2

\* the lists of videos supplied
BatchLists == UNION { [1..n -> Videos] : n \in 0..MaxBatch }

BatchInit ==
    /\ mode = "batch"
    /\ events = {}
    /\ cfg \in Configs
    /\ llm_output = <<[timestamp |-> Seconds(5), text |-> Letters(5),
                       duration |-> Seconds(3)]>>
    /\ ThreadsIdle
    /\ ScanIdle
    /\ FnIdle
    /\ AnalysisIdle
    /\ video_paths \in BatchLists
    /\ batch_pc = "loop"
    /\ batch_i = 1
    /\ attempts = <<>>
    /\ results = <<>>
    /\ successful = 0
    /\ failed = 0

\* lines 177-180: the loop has another video; call self.process_video
BatchCall ==
    /\ mode = "batch"
    /\ batch_pc = "loop"
    /\ batch_i <= Len(video_paths)
    /\ attempts' = Append(attempts, video_paths[batch_i])
    /\ batch_pc' = "running"
    /\ pc' = [pc EXCEPT ![1] = "transcribe"]
    /\ video' = [video EXCEPT ![1] = video_paths[batch_i]]
    /\ info' = [info EXCEPT ![1] = NoInfo]
    /\ overlay_data' = [overlay_data EXCEPT ![1] = <<>>]
    /\ crop' = [crop EXCEPT ![1] = NoCrop]
    /\ output_path' = [output_path EXCEPT ![1] = NoPath]
    /\ cmd' = [cmd EXCEPT ![1] = NoCmd]
    /\ stages' = [stages EXCEPT ![1] = <<>>]
    /\ render_exit' = [render_exit EXCEPT ![1] = -1]
    /\ raised' = [raised EXCEPT ![1] = None]
    /\ vp_result' = [vp_result EXCEPT ![1] = NoPath]
    /\ outro_log' = [outro_log EXCEPT ![1] = None]
    /\ cleanups' = [cleanups EXCEPT ![1] = {}]
    /\ result' = [result EXCEPT ![1] = NoPath]
    /\ UNCHANGED <<mode, cfg, llm_output, now, fs, watchVars, processing_status,
                   fnVars, analysisVars, scanVars, video_paths, batch_i,
                   results, successful, failed>>

\* mutant: the loop ends at the first video that fails
NextVideoUnlessFailed(i, r) ==
    IF r = NoPath THEN Len(video_paths) + 1 ELSE i + 1

\* enumerate(video_paths, 1): the next video, whatever the result was
NextVideo(i, r) == i + 1

\* lines 180-186: process_video returned; record the result and count it
BatchCollect ==
    /\ mode = "batch"
    /\ batch_pc = "running"
    /\ pc[1] \in {"done", "failed"}
    /\ results' = (video_paths[batch_i] :> result[1]) @@ results
    /\ IF result[1] # NoPath
       THEN successful' = successful + 1 /\ UNCHANGED failed
       ELSE failed' = failed + 1 /\ UNCHANGED successful
    /\ batch_i' = NextVideo(batch_i, result[1])
    /\ batch_pc' = "loop"
    /\ UNCHANGED <<mode, cfg, llm_output, now, fs, watchVars, processing_status,
                   pc, threadVars, fnVars, analysisVars, scanVars, video_paths,
                   attempts>>

\* lines 188-191: the loop is over; return results
BatchReturn ==
    /\ mode = "batch"
    /\ batch_pc = "loop"
    /\ batch_i > Len(video_paths)
    /\ batch_pc' = "returned"
    /\ UNCHANGED <<mode, cfg, llm_output, now, fs, watchVars, processing_status,
                   pc, threadVars, fnVars, analysisVars, scanVars, video_paths,
                   batch_i, attempts, results, successful, failed>>

BatchNext ==
    \/ Tick
    \/ BatchCall
    \/ Pipeline(1)
    \/ WorkflowFinish(1)
    \/ WorkflowExcept(1)
    \/ BatchCollect
    \/ BatchReturn

BatchSpec == BatchInit /\ [][BatchNext]_vars

-----------------------------------------------------------------------------
(* FileWatcher.start: the observer thread delivers events while the main     *)
(* thread scans the input folder for existing files; the callback is the    *)
(* watcher's parameter and is not looked into                               *)

StartupInit ==
    /\ mode = "startup"
    /\ events \in SUBSET {Event(type, v) : type \in {"created", "moved"},
                                           v \in Videos}
    /\ cfg = DefaultConfig
    /\ llm_output = <<>>
    /\ ThreadsIdle
    /\ BatchIdle
    /\ FnIdle
    /\ AnalysisIdle
    /\ scan_pc = "scanning"
    /\ listing \in SUBSET Videos
    /\ existing_files = <<>>
    /\ scan_i = 1
    /\ scan_handed = <<>>

\* lines 243-246: the next entry of os.listdir is kept if it should be
\* processed
ScanCheck(v) ==
    /\ mode = "startup"
    /\ scan_pc = "scanning"
    /\ v \in listing
    /\ listing' = listing \ {v}
    /\ existing_files' = IF ShouldProcessFile(v)
                         THEN Append(existing_files, v) ELSE existing_files
    /\ UNCHANGED <<mode, cfg, llm_output, now, fs, watchVars, processing_status,
                   pc, threadVars, fnVars, analysisVars, batchVars, scan_pc,
                   scan_i, scan_handed>>

\* lines 254-255 and _process_file_when_ready lines 165-178, on the main
\* thread: wait for the next existing file, record its stem, call the
\* callback; a file that is not ready is given up (finally clause)
ScanFileReady ==
    /\ mode = "startup"
    /\ scan_pc = "scanning"
    /\ listing = {}
    /\ scan_i <= Len(existing_files)
    /\ \/ /\ processed_files' = processed_files \cup {Stem(existing_files[scan_i])}
          /\ scan_handed' = Append(scan_handed, existing_files[scan_i])
          /\ scan_pc' = "in_callback"
          /\ UNCHANGED <<processing_files, scan_i>>
       \/ /\ processing_files' = processing_files \ {existing_files[scan_i]}
          /\ scan_i' = scan_i + 1
          /\ UNCHANGED <<processed_files, scan_handed, scan_pc>>
    /\ UNCHANGED <<mode, cfg, llm_output, now, fs, events, processing_status,
                   pc, threadVars, fnVars, analysisVars, batchVars, listing,
                   existing_files>>

\* lines 178-187 on the main thread: the callback is over (or raised); the
\* finally clause discards the path
ScanCallbackReturns ==
    /\ mode = "startup"
    /\ scan_pc = "in_callback"
    /\ processing_files' = processing_files \ {existing_files[scan_i]}
    /\ scan_i' = scan_i + 1
    /\ scan_pc' = "scanning"
    /\ UNCHANGED <<mode, cfg, llm_output, now, fs, events, processed_files,
                   processing_status, pc, threadVars, fnVars, analysisVars,
                   batchVars, listing, existing_files, scan_handed>>

\* line 258: every existing file has been handled
ScanReturn ==
    /\ mode = "startup"
    /\ scan_pc = "scanning"
    /\ listing = {}
    /\ scan_i > Len(existing_files)
    /\ scan_pc' = "finished"
    /\ UNCHANGED <<mode, cfg, llm_output, now, fs, watchVars, processing_status,
                   pc, threadVars, fnVars, analysisVars, batchVars, listing,
                   existing_files, scan_i, scan_handed>>

\* lines 178-187 on a worker thread: the callback is over (or raised)
CallbackReturns(i) ==
    /\ mode = "startup"
    /\ pc[i] = "transcribe"
    /\ Goto(i, "done")
    /\ Discard(i)
    /\ UNCHANGED <<envVars, now, fs, events, processed_files, processing_status,
                   threadVars>>

StartupNext ==
    \/ \E v \in Videos :
          \/ OnCreated(v)
          \/ OnMoved(v)
          \/ ScanCheck(v)
    \/ \E i \in Threads :
          \/ FileReady(i)
          \/ CallbackReturns(i)
    \/ ScanFileReady
    \/ ScanCallbackReturns
    \/ ScanReturn

StartupSpec == StartupInit /\ [][StartupNext]_vars

-----------------------------------------------------------------------------
(* Dashboard (app.py): /process/<filename> and process_video_background *)

DashInit ==
    /\ mode = "dashboard"
    /\ events = {}
    /\ cfg \in Configs
    /\ llm_output = <<[timestamp |-> Seconds(5), text |-> Letters(5),
                       duration |-> Seconds(3)]>>
    /\ ThreadsIdle
    /\ DriversIdle
    /\ FnIdle
    /\ AnalysisIdle

\* the /process handler: reject while is_processing is set, otherwise start a
\* background thread (the input file exists)
ProcessRequest(i, v) ==
    /\ mode = "dashboard"
    /\ FreeThread(i)
    /\ video' = [video EXCEPT ![i] = v]
    /\ IF processing_status.is_processing
       THEN Goto(i, "rejected")
       ELSE Goto(i, "bg_start")
    /\ UNCHANGED <<envVars, now, fs, watchVars, processing_status, info,
                   overlay_data, crop, output_path, cmd, stages, raised,
                   vp_result, outro_log, cleanups, result,
                   render_exit>>

\* process_video_background lines 146-157: the thread marks the job running
BackgroundStart(i) ==
    /\ pc[i] = "bg_start"
    /\ processing_status' = [is_processing |-> TRUE, stage |-> "Starting..."]
    /\ Goto(i, "transcribe")
    /\ UNCHANGED <<envVars, now, fs, watchVars, threadVars>>

\* lines 207-213: the stage reported for what the pipeline returned
FinalStage(r) == IF r # NoPath THEN "Complete!" ELSE "Failed"

\* lines 188-213: cleanup when enabled, progress 100, the final stage
BackgroundFinish(i) ==
    /\ mode = "dashboard"
    /\ pc[i] = "vp_return"
    /\ \/ \* os.remove raises inside transcription.cleanup_temp_files
          /\ cfg.delete_temp_files
          /\ \E p \in TranscriptionTemps(video[i]) : Exists(p)
          /\ cleanups' = [cleanups EXCEPT ![i] = @ \cup {"transcription"}]
          /\ UpdateProgress("Finalizing output...")
          /\ Goto(i, "bg_except")
          /\ UNCHANGED <<fs, result>>
       \/ /\ IF cfg.delete_temp_files
             THEN /\ \E f \in VideoProcessorCleanups(
                                 TranscriptionCleanup(fs, video[i]), video[i]) :
                        fs' = f
                  /\ cleanups' = [cleanups EXCEPT ![i] =
                                     @ \cup {"transcription", "video_processor"}]
             ELSE UNCHANGED <<fs, cleanups>>
          /\ result' = [result EXCEPT ![i] = vp_result[i]]
          /\ UpdateProgress(FinalStage(vp_result[i]))
          /\ Goto(i, "bg_finally")
    /\ UNCHANGED <<envVars, now, watchVars, video, info, overlay_data, crop,
                   output_path, cmd, stages, raised, vp_result, outro_log,
                   render_exit>>

\* lines 199-201 and 215-221: the exception is reported, no cleanup runs
BackgroundExcept(i) ==
    /\ pc[i] = "bg_except"
    /\ UpdateProgress("Error")
    /\ result' = [result EXCEPT ![i] = NoPath]
    /\ Goto(i, "bg_finally")
    /\ UNCHANGED <<envVars, now, fs, watchVars, video, info, overlay_data,
                   crop, output_path, cmd, stages, raised, vp_result,
                   outro_log, cleanups,
                   render_exit>>

\* line 224: processing_status['is_processing'] = False
ResetFlag(status) == [status EXCEPT !.is_processing = FALSE]

\* lines 223-225: the finally clause; process_video_background returns
BackgroundFinally(i) ==
    /\ pc[i] = "bg_finally"
    /\ processing_status' = ResetFlag(processing_status)
    /\ Goto(i, IF result[i] # NoPath THEN "done" ELSE "failed")
    /\ UNCHANGED <<envVars, now, fs, watchVars, threadVars>>

DashNext ==
    \/ Tick
    \/ \E i \in Threads :
          \/ \E v \in Videos : ProcessRequest(i, v)
          \/ BackgroundStart(i)
          \/ Pipeline(i)
          \/ BackgroundFinish(i)
          \/ BackgroundExcept(i)
          \/ BackgroundFinally(i)

DashSpec == DashInit /\ [][DashNext]_vars

-----------------------------------------------------------------------------
(* _calculate_crop_params called on frame sizes *)

\* everything a pipeline run reads or writes
pipelineVars == <<mode, cfg, llm_output, now, fs, watchVars, processing_status,
                  pc, threadVars, driverVars>>

\* no pipeline run takes place
NoPipeline ==
    /\ events = {}
    /\ cfg = DefaultConfig
    /\ llm_output = <<>>
    /\ ThreadsIdle
    /\ DriversIdle

\* frame sides: every small side, and the sides of common formats
MaxSide == 24

Sides == (1..MaxSide) \cup {720, 1080, 1280, 1920}

CropInit ==
    /\ mode = "crop"
    /\ NoPipeline
    /\ AnalysisIdle
    /\ fn_pc = "call"
    /\ fn_arg \in [width : Sides, height : Sides]
    /\ fn_ret = NoCrop

CalculateCropCall ==
    /\ mode = "crop"
    /\ fn_pc = "call"
    /\ fn_ret' = CalculateCropParams(fn_arg.width, fn_arg.height)
    /\ fn_pc' = "returned"
    /\ UNCHANGED <<pipelineVars, fn_arg, analysisVars>>

CropNext == CalculateCropCall

CropSpec == CropInit /\ [][CropNext]_vars

-----------------------------------------------------------------------------
(* The crop, scale and logo stages of process_video planned for frame sizes *)
(* and logo positions                                                       *)

\* logo.position: the five keys, and a value that is no key
LogoConfigs ==
    { [logo_position |-> p] @@ DefaultConfig : p \in Positions \cup {"middle"} }

LogoInit ==
    /\ mode = "logo"
    /\ events = {}
    /\ cfg \in LogoConfigs
    /\ llm_output = <<>>
    /\ ThreadsIdle
    /\ DriversIdle
    /\ AnalysisIdle
    /\ fn_pc = "call"
    /\ fn_arg \in [width : Sides, height : Sides]
    /\ fn_ret = <<>>

\* lines 337-380: crop parameters, logo filter, base filter, logo stage
LogoPlanCall ==
    /\ mode = "logo"
    /\ fn_pc = "call"
    /\ fn_ret' = BuildFilters(cfg, CalculateCropParams(fn_arg.width, fn_arg.height),
                              <<>>).filters
    /\ fn_pc' = "returned"
    /\ UNCHANGED <<pipelineVars, fn_arg, analysisVars>>

LogoNext == LogoPlanCall

LogoSpec == LogoInit /\ [][LogoNext]_vars

-----------------------------------------------------------------------------
(* VideoProcessor.cleanup_temp_files called while the temp folder holds the *)
(* artifacts of several videos                                              *)

\* videos whose names share a prefix or a stem, and one that shares nothing
CleanupVideos ==
    { Path("input", <<"a">>, "mp4"), Path("input", <<"a">>, "mov"),
      Path("input", <<"a", "b">>, "mp4"), Path("input", <<"b">>, "mp4") }

\* the temp artifacts the pipeline writes for a video
TempFilesOf(v) == {AudioPath(v), TranscriptPath(v), OverlaysJson(v)}

\* what the temp folder may hold
TempFolders ==
    SUBSET ({ TranscriptPath(v) : v \in CleanupVideos }
            \cup { OverlaysJson(v) : v \in CleanupVideos }
            \cup { AudioPath(Path("input", <<"a">>, "mp4")), ConcatList })

CleanupInit ==
    /\ mode = "cleanup"
    /\ cfg \in {DefaultConfig, [DefaultConfig EXCEPT !.delete_temp_files = FALSE]}
    /\ llm_output = <<>>
    /\ now = 0
    /\ processing_status = [is_processing |-> FALSE, stage |-> "Idle"]
    /\ ThreadFieldsIdle
    /\ DriversIdle
    /\ AnalysisIdle
    /\ fn_pc = "call"
    /\ fn_arg \in CleanupVideos
    /\ fn_ret = <<>>
    /\ events = {}
    /\ \E files \in TempFolders : fs = [p \in files |-> "ok"]
    /\ \E others \in {{}} \cup {{v} : v \in CleanupVideos \ {fn_arg}} :
          processing_files = others
    /\ processed_files = {}

\* cleanup_temp_files(video_path): nothing when delete_temp_files is off
CleanupCall ==
    /\ mode = "cleanup"
    /\ fn_pc = "call"
    /\ IF cfg.delete_temp_files
       THEN \E f \in VideoProcessorCleanups(fs, fn_arg) : fs' = f
       ELSE UNCHANGED fs
    /\ fn_pc' = "returned"
    /\ UNCHANGED <<mode, cfg, llm_output, now, watchVars, processing_status,
                   pc, threadVars, driverVars, fn_arg, fn_ret, analysisVars>>

CleanupNext == CleanupCall

CleanupSpec == CleanupInit /\ [][CleanupNext]_vars

-----------------------------------------------------------------------------
(* _add_outro: the streams of the normalized outro and of the stitched file *)

\* a media file: what its video and audio streams carry ("none": no stream)
Media(video_stream, audio_stream, duration, fps) ==
    [video |-> video_stream, audio |-> audio_stream,
     duration |-> duration, fps |-> fps]

\* the lavfi source anullsrc: silence without end and no video
NullAudioSource == Media("none", "silence", -1, 0)

\* the outro asset, with or without an audio stream of its own
OutroAssets ==
    { Media("outro", a, d, r) :
        a \in {"outro", "none"}, d \in {Seconds(3), Seconds(5)}, r \in {25, 30} }

\* the rendered main video; its audio is the source's (-map 0:a)
MainVideos ==
    { Media("main", "main", d, r) :
        d \in {Seconds(30), Seconds(60)}, r \in {24, 25, 30, 60} }

\* lines 485-506: inputs and stream mapping of the normalization command
OutroCommand(outro, main_video_info, outro_info) ==
    [inputs |-> <<outro, NullAudioSource>>,
     map_video |-> 1,
     map_audio |-> 2,
     r |-> main_video_info.fps,
     t |-> outro_info.duration]

\* what ffmpeg writes for such a command: the mapped streams, at the rate
\* -r, cut at -t
RunOutroCommand(c) ==
    Media(c.inputs[c.map_video].video, c.inputs[c.map_audio].audio, c.t, c.r)

\* lines 511-526: concat=n=2:v=1:a=1 of [0:v][0:a][1:v][1:a]
Concatenate(first, second) ==
    [video |-> <<first.video, second.video>>,
     audio |-> <<first.audio, second.audio>>,
     duration |-> first.duration + second.duration,
     fps |-> first.fps]

NoMedia == Media("none", "none", 0, 0)

OutroInit ==
    /\ mode = "outro"
    /\ NoPipeline
    /\ AnalysisIdle
    /\ fn_pc = "call"
    /\ fn_arg \in [outro : OutroAssets, main : MainVideos]
    /\ fn_ret = [temp_outro |-> NoMedia, final |-> NoMedia, returned |-> "none"]

\* lines 468-509: probe both files, run the normalization; a failing ffmpeg
\* returns the main video
NormalizeOutro ==
    /\ mode = "outro"
    /\ fn_pc = "call"
    /\ \/ /\ fn_ret' = [fn_ret EXCEPT !.temp_outro =
                           RunOutroCommand(OutroCommand(fn_arg.outro, fn_arg.main,
                                                        fn_arg.outro))]
          /\ fn_pc' = "normalized"
       \/ /\ fn_ret' = [fn_ret EXCEPT !.returned = "video_path"]
          /\ fn_pc' = "returned"
    /\ UNCHANGED <<pipelineVars, fn_arg, analysisVars>>

\* lines 511-539: stitch main video and normalized outro
ConcatenateOutro ==
    /\ mode = "outro"
    /\ fn_pc = "normalized"
    /\ \/ fn_ret' = [fn_ret EXCEPT
                        !.final = Concatenate(fn_arg.main, fn_ret.temp_outro),
                        !.returned = "final_path"]
       \/ fn_ret' = [fn_ret EXCEPT !.returned = "video_path"]
    /\ fn_pc' = "returned"
    /\ UNCHANGED <<pipelineVars, fn_arg, analysisVars>>

OutroNext == NormalizeOutro \/ ConcatenateOutro

OutroSpec == OutroInit /\ [][OutroNext]_vars

-----------------------------------------------------------------------------
(* _wrap_text_for_vertical_video called on overlay texts *)

\* the words texts are made of: short and long words, a word longer than a
\* line, a word of one emoji glyph, a word that starts with a glyph
WrapWords ==
    { Letters(1), Letters(16), Letters(18), Letters(21),
      <<"E">>, <<"E">> \o Letters(9) }

\* the number of words of a text
MaxWords == 4

\* the number of blanks inside the plain text of a caption
MaxSpaces == 2

\* the ways to put up to n single blanks inside 45 characters
RECURSIVE BlankSets(_)
BlankSets(n) ==
    IF n = 0 THEN {{}}
    ELSE LET fewer == BlankSets(n - 1)
         IN  fewer \cup
             UNION { { b \cup {k} :
                         k \in {j \in 2..44 : \A m \in b : j > m + 1} } :
                     b \in fewer }

\* 45 characters of plain text, split into words at the blanks
PlainText(blanks) == [k \in 1..45 |-> IF k \in blanks THEN " " ELSE "a"]

\* captions: leading emoji glyphs, attached to the first word or followed by
\* a blank, then 45 characters of plain text
Captions ==
    { glyphs \o PlainText(b) :
        glyphs \in {<<"E">>, <<"E", " ">>, <<"E", "E", " ">>},
        b \in BlankSets(MaxSpaces) }

\* texts: up to MaxWords words separated by blanks or by newlines, two
\* words with blanks around them, and the captions
WrapTexts ==
    UNION { { Join(sep, ws) : ws \in [1..n -> WrapWords] } :
            n \in 0..MaxWords, sep \in {" ", "NL"} }
    \cup { <<" ">> \o Join(" ", ws) \o <<" ", " ">> : ws \in [1..2 -> WrapWords] }
    \cup Captions

WrapInit ==
    /\ mode = "wrap"
    /\ NoPipeline
    /\ AnalysisIdle
    /\ fn_pc = "call"
    /\ fn_arg \in WrapTexts
    /\ fn_ret = <<>>

WrapCall ==
    /\ mode = "wrap"
    /\ fn_pc = "call"
    /\ fn_ret' = WrapTextForVerticalVideo(fn_arg)
    /\ fn_pc' = "returned"
    /\ UNCHANGED <<pipelineVars, fn_arg, analysisVars>>

WrapNext == WrapCall

WrapSpec == WrapInit /\ [][WrapNext]_vars

-----------------------------------------------------------------------------
(* Step 2 of the workflow on its own: analyze_transcript, the optional      *)
(* review, and the compilation of the instructions into drawtext stages     *)

\* elements the LLM may put into the 'overlays' list
ItemSamples ==
    { Item(JNum(Seconds(5)), JStr(Letters(5)), JNum(Seconds(3))),
      Item(JNum(Seconds(60) - 4), JStr(<<" ">> \o Letters(3) \o <<":">>),
           JNum(Seconds(3))),
      Item(JNum(Seconds(61)), JStr(Letters(4)), JNum(Seconds(3))),
      Item(JNum(-Seconds(1)), JStr(Letters(4)), JNum(Seconds(3))),
      Item(JBig, JStr(Letters(4)), JNum(Seconds(3))),
      Item(JNum(Seconds(7)), JStr(<<" ", " ">>), JNum(Seconds(3))),
      Item(JNum(Seconds(8)), JStr(Letters(101)), JMissing),
      Item(JNum(Seconds(9)), JStr(Letters(6)), JNum(0)),
      Item(JMissing, JStr(Letters(2)), JStr(Letters(1))),
      NotADict }

\* the length of the 'overlays' list
MaxItems == 2

Responses ==
    { Response("json", Parsed("dict", items)) :
        items \in UNION { [1..n -> ItemSamples] : n \in 0..MaxItems } }
    \cup { Response("json", Parsed(kind, <<>>)) :
             kind \in {"no_overlays_key", "not_a_container",
                       "overlays_not_iterable"} }
    \cup { Response("prose", Parsed("no_overlays_key", <<>>)),
           Response("call_failed", Parsed("no_overlays_key", <<>>)) }

\* durations ffprobe reports
ClipDurations == {Seconds(60) - 3, Seconds(60)}

\* texts typed in the review
ReviewTexts == {Letters(5), <<" ">> \o Letters(101), <<" ">>}

AnalysisInit ==
    /\ mode = "analysis"
    /\ NoPipeline
    /\ FnIdle
    /\ an_pc = "analyze"
    /\ review_on \in BOOLEAN
    /\ response \in Responses
    /\ instructions = <<>>
    /\ clip_duration \in ClipDurations
    /\ compiled = <<>>

\* workflow line 102: overlay_data = analyze_transcript(transcript, video_path)
Analyze ==
    /\ an_pc = "analyze"
    /\ instructions' = AnalyzeTranscript(response)
    /\ an_pc' = "analyzed"
    /\ UNCHANGED <<pipelineVars, fnVars, review_on, response, clip_duration,
                   compiled>>

\* review_overlays, choice 'e': a non-blank new text replaces the text of
\* the chosen overlay; the loop continues
ReviewEdit ==
    /\ an_pc \in {"analyzed", "reviewing"}
    /\ review_on
    /\ \E idx \in DOMAIN instructions, new_text \in ReviewTexts :
          instructions' =
              IF Strip(new_text) # <<>>
              THEN [instructions EXCEPT ![idx].text = Strip(new_text)]
              ELSE instructions
    /\ an_pc' = "reviewing"
    /\ UNCHANGED <<pipelineVars, fnVars, review_on, response, clip_duration,
                   compiled>>

\* workflow lines 105-106: review_overlays returns (accept, or skip), or the
\* review is disabled
ReviewDone ==
    /\ an_pc \in {"analyzed", "reviewing"}
    /\ \/ UNCHANGED instructions
       \/ review_on /\ instructions' = <<>>
    /\ an_pc' = "reviewed"
    /\ UNCHANGED <<pipelineVars, fnVars, review_on, response, clip_duration,
                   compiled>>

\* process_video lines 383-386: the instructions are compiled
Compile ==
    /\ an_pc = "reviewed"
    /\ compiled' = CreateOverlayFilter(instructions, clip_duration)
    /\ an_pc' = "done"
    /\ UNCHANGED <<pipelineVars, fnVars, review_on, response, instructions,
                   clip_duration>>

AnalysisNext ==
    \/ Analyze
    \/ ReviewEdit
    \/ ReviewDone
    \/ Compile

AnalysisSpec == AnalysisInit /\ [][AnalysisNext]_vars

-----------------------------------------------------------------------------
(* Properties *)

Range(s) == {s[k] : k \in DOMAIN s}

\* the value ffmpeg uses for an option given several times: the last one
EffectiveOption(c, opt) ==
    LET at == {k \in DOMAIN c.options : c.options[k].opt = opt}
    IN  c.options[CHOOSE k \in at : \A m \in at : m <= k].val

Planned(i) == cmd[i] # NoCmd

NoOptionalStage(i) ==
    /\ ~(cfg.logo_enabled /\ cfg.logo_exists)
    /\ CreateOverlayFilter(overlay_data[i], info[i].duration) = <<>>

\* C1: when no optional stage applies (no logo stage, no overlay survives
\* compilation) the render invocation carries no filter plan and selects
\* stream copy for video and audio.
C1_StreamCopyWhenNoOptionalStage ==
    \A i \in Threads :
        (Planned(i) /\ NoOptionalStage(i)) =>
            /\ cmd[i].filter_complex = <<>>
            /\ EffectiveOption(cmd[i], "c:v") = "copy"
            /\ EffectiveOption(cmd[i], "c:a") = "copy"

\* C2: any two invocations of process_video write to different output paths.
C2_DistinctOutputPaths ==
    \A i, j \in Threads :
        (i # j /\ output_path[i] # NoPath /\ output_path[j] # NoPath) =>
            output_path[i] # output_path[j]

\* C3: after a failed render no file exists at the final output path.
C3_NoFileAtFinalPathAfterRenderFailure ==
    \A i \in Threads :
        (raised[i] = "render" /\ render_exit[i] = 1) => ~Exists(output_path[i])

\* a thread that is executing process_video_background and has set the flag
InBackgroundJob(i) ==
    pc[i] \notin {"idle", "rejected", "bg_start", "done", "failed"}

\* C4: in the dashboard at most one process_video_background job runs at any
\* time.
C4_SingleBackgroundJob ==
    Cardinality({i \in Threads : InBackgroundJob(i)}) <= 1

\* a thread whose render invocation is running
RenderInFlight(i) == pc[i] = "vp_rendering"

\* C5: in file-watcher mode at most one render is in flight at any time.
C5_OneRenderInFlight ==
    Cardinality({i \in Threads : RenderInFlight(i)}) <= 1

\* the ways the outro step can fail
OutroFailures ==
    {"asset_missing", "probe_failed", "normalize_failed", "concat_failed"}

\* the step in which _add_outro fails in thread i
OutroFails(i) == outro_log[i] = None /\ outro_log'[i] \in OutroFailures

OutroFailureDegrades(i) ==
    OutroFails(i) =>
        /\ pc'[i] = "vp_return"
        /\ raised'[i] = None
        /\ vp_result'[i] = output_path[i]
        /\ Exists(output_path[i]) =>
              /\ output_path[i] \in DOMAIN fs'
              /\ fs'[output_path[i]] = fs[output_path[i]]

C7_ReturnedFileExists ==
    [][\A i \in Threads :
          (pc[i] # "done" /\ pc'[i] = "done" /\ result'[i] # NoPath) =>
              result'[i] \in DOMAIN fs']_vars

\* C8: once the render succeeded, the run never ends as a failure, even when
\* a cleanup deletion raises.
C8_CleanupErrorNeverFailsRun ==
    \A i \in Threads : render_exit[i] = 0 => pc[i] # "failed"

\* C9: with cleanup enabled, every finished run, successful or failed, has
\* executed the cleanup of the transcription service and of the video
\* processor.
C9_CleanupRunsOnEveryOutcome ==
    \A i \in Threads :
        (cfg.delete_temp_files /\ pc[i] \in {"done", "failed"}) =>
            {"transcription", "video_processor"} \subseteq cleanups[i]

\* the order of the stages of process_video
StageOrder == <<"probe", "crop", "graph", "render", "outro">>

\* C10: the stages of process_video run in the fixed order; once the probe
\* or the render fails no later stage runs and the failure reaches the
\* caller; the outro stitcher is entered only if outro is enabled and the
\* render exited successfully; process_video returns after the render, or
\* after the outro step when outro is enabled.
C10_StageOrder ==
    \A i \in Threads :
        /\ IsPrefix(stages[i], StageOrder)
        /\ raised[i] # None =>
              /\ raised[i] \in {"probe", "render"}
              /\ stages[i] # <<>>
              /\ stages[i][Len(stages[i])] = raised[i]
              /\ pc[i] \in {ExceptPc, "failed"}
        /\ "outro" \in Range(stages[i]) =>
              (cfg.outro_enabled /\ render_exit[i] = 0)
        /\ pc[i] = "vp_return" =>
              /\ render_exit[i] = 0
              /\ stages[i] = IF cfg.outro_enabled
                             THEN StageOrder
                             ELSE SubSeq(StageOrder, 1, 4)

\* C10 witness: one run went through every stage including the outro and
\* returned, another stopped at a failed render
C10_Witness ==
    \E i, j \in Threads :
        /\ pc[i] = "vp_return"
        /\ stages[i] = StageOrder
        /\ raised[j] = "render"
        /\ stages[j] = SubSeq(StageOrder, 1, 4)

\* the stages at which process_video fails
FailureStages == {"probe", "render"}

\* C11: when a run fails at the probe or the render stage, what the caller
\* of the workflow receives identifies the stage: two runs that failed at
\* different stages deliver different outcomes.
C11_FailureIdentifiesStage ==
    \A i, j \in Threads :
        ( /\ pc[i] = "failed" /\ pc[j] = "failed"
          /\ raised[i] \in FailureStages /\ raised[j] \in FailureStages
          /\ raised[i] # raised[j] )
        => result[i] # result[j]

\* the step in which _add_outro returns the stitched file in thread i
Stitches(i) == outro_log[i] = None /\ outro_log'[i] = "stitched"

\* the step in which normalization or concatenation fails in thread i
StitchFails(i) ==
    outro_log[i] = None /\ outro_log'[i] \in {"normalize_failed", "concat_failed"}

RoundHalfUp(n, d) == (2 * n + d) \div (2 * d)

RoundHalfEven(n, d) ==
    IF (2 * n) % (2 * d) = d /\ (n \div d) % 2 = 0
    THEN n \div d
    ELSE RoundHalfUp(n, d)

Rounded(n, d) == {RoundHalfUp(n, d), RoundHalfEven(n, d)}

\* half of n as a whole number of pixels
Halved(n) == {n \div 2, (n + 1) \div 2}

\* C13: _calculate_crop_params returns the documented window: for
\* width/height > 9/16 the full height, a width of round(height * 9/16) and
\* a horizontally centred window; otherwise the full width, a height of
\* round(width / (9/16)) and a vertically centred window.
C13_CropFollowsDocumentedFormula ==
    (mode = "crop" /\ fn_pc = "returned") =>
        LET width == fn_arg.width
            height == fn_arg.height
        IN  IF width * 16 > height * 9
            THEN /\ fn_ret.h = height
                 /\ fn_ret.w \in Rounded(height * 9, 16)
                 /\ fn_ret.x \in Halved(width - fn_ret.w)
                 /\ fn_ret.y = 0
            ELSE /\ fn_ret.w = width
                 /\ fn_ret.h \in Rounded(width * 16, 9)
                 /\ fn_ret.x = 0
                 /\ fn_ret.y \in Halved(height - fn_ret.h)

\* the instructions that start before the end of the clip
Survivors == SelectSeq(instructions, LAMBDA o : o.timestamp < clip_duration)

\* C14: every drawtext stage emitted for a clip of duration D has
\* 0 <= startTime < D and endTime = min(timestamp + duration, D), and the
\* instructions with timestamp >= D yield no stage.
C14_OverlayWindowsWithinClip ==
    an_pc = "done" =>
        /\ Len(compiled) = Len(Survivors)
        /\ \A k \in DOMAIN compiled :
              /\ 0 <= compiled[k].start_time
              /\ compiled[k].start_time < clip_duration
              /\ k \in DOMAIN Survivors =>
                    compiled[k].end_time =
                        Min(Survivors[k].timestamp + Survivors[k].duration,
                            clip_duration)

\* the elements of the parsed 'overlays' list
RawItems == response.data.overlays

\* _validate_overlay_data was given a dict with an 'overlays' list and returned
Validated ==
    /\ an_pc = "analyzed"
    /\ response.kind = "json"
    /\ response.data.kind = "dict"
    /\ ~ValidationRaises(response.data)

\* the documented retention rule: the timestamp is a number >= 0, the text
\* is a non-empty string, the duration is not a non-positive number
DocumentedValid(item) ==
    /\ item.kind = "object"
    /\ IsNumber(item.timestamp)
    /\ ~(item.timestamp.kind = "number" /\ item.timestamp.num < 0)
    /\ item.text.kind = "string"
    /\ Strip(item.text.str) # <<>>
    /\ ~(item.duration.kind = "number" /\ item.duration.num <= 0)

\* C15: _validate_overlay_data retains exactly the instructions that the
\* documented rule accepts (an instruction with a zero or negative duration
\* is discarded), and gives a retained instruction whose duration is missing
\* or not a number the duration 3.0.
C15_ValidationRetainsDocumentedItems ==
    Validated =>
        /\ Len(instructions) =
              Cardinality({k \in DOMAIN RawItems : DocumentedValid(RawItems[k])})
        /\ \A k \in DOMAIN RawItems :
              (DocumentedValid(RawItems[k]) /\ ~IsNumber(RawItems[k].duration)) =>
                  \E m \in DOMAIN instructions :
                      /\ instructions[m].timestamp = RawItems[k].timestamp.num
                      /\ instructions[m].duration = DefaultDuration

\* the LLM response yields no usable overlay
NoUsableOverlay ==
    \/ response.kind = "prose"
    \/ /\ response.kind = "json"
       /\ response.data.kind = "dict"
       /\ \A k \in DOMAIN RawItems : ~Keeps(RawItems[k])

\* the default overlays built into the analyzer
DefaultOverlays ==
    { FallbackOverlays,
      <<[timestamp |-> Seconds(5), text |-> FinancialTip, duration |-> Seconds(3)]>> }

\* C16: analyze_transcript never returns an empty overlay list, and returns
\* exactly one default overlay when no JSON can be extracted or every item
\* of the parsed list fails validation.
C16_DefaultOverlayWhenNothingUsable ==
    an_pc = "analyzed" =>
        /\ instructions # <<>>
        /\ NoUsableOverlay => instructions \in DefaultOverlays

\* a well-formed overlay list: every instruction has a timestamp >= 0, a
\* non-empty text and a positive duration
WellFormed(list) ==
    \A m \in DOMAIN list :
        /\ list[m].timestamp >= 0
        /\ list[m].text # <<>>
        /\ list[m].duration > 0

\* instruction o is what validation makes of the valid element item
KeptAs(item, o) ==
    /\ o.timestamp = item.timestamp.num
    /\ o.text = Strip(TruncateText(item.text.str))
    /\ o.duration = IF item.duration.kind = "number"
                    THEN item.duration.num ELSE DefaultDuration

\* C17: for any LLM response analyze_transcript returns a well-formed overlay
\* list; the items of a parsed list are filtered one by one, so that the
\* result holds no more instructions than the list has items and every valid
\* item is kept with its timestamp, text and duration.
C17_ItemsFilteredIndividually ==
    an_pc = "analyzed" =>
        /\ WellFormed(instructions)
        /\ (response.kind = "json" /\ response.data.kind = "dict") =>
              /\ Len(instructions) <= Len(RawItems)
              /\ \A k \in DOMAIN RawItems :
                    ( /\ DocumentedValid(RawItems[k])
                      /\ RawItems[k].timestamp.kind = "number"
                      /\ RawItems[k].duration.kind # "bigint" )
                    => \E m \in DOMAIN instructions :
                          KeptAs(RawItems[k], instructions[m])

\* C18: every overlay text that is compiled into a drawtext stage has at
\* most 100 characters, whether it comes from validated LLM output, from a
\* fallback overlay or from an edit in the interactive review.
C18_CompiledTextAtMost100 ==
    an_pc = "done" =>
        \A k \in DOMAIN Survivors : Len(Survivors[k].text) <= MaxOverlayText

LineCount(s) == 1 + Cardinality({k \in DOMAIN s : s[k] = "NL"})

\* C20: _wrap_text_for_vertical_video returns a single line when the text
\* without its emoji glyphs has at most 20 characters, and never more than
\* 2 lines.
C20_WrapAtMostTwoLines ==
    (mode = "wrap" /\ fn_pc = "returned") =>
        /\ LineCount(fn_ret) <= 2
        /\ Len(TextOnly(fn_arg)) <= MaxCharsPerLine => LineCount(fn_ret) = 1

\* C20 witness: a text that fills more than 2 lines was returned as 2 lines
C20_Witness ==
    /\ mode = "wrap"
    /\ fn_pc = "returned"
    /\ Len(FillLines(Split(fn_arg), <<>>, <<>>)) > 2
    /\ LineCount(fn_ret) = 2

\* the number of emoji glyphs of a text
GlyphCount(s) == Cardinality({k \in DOMAIN s : s[k] = "E"})

\* C21: every emoji glyph of the text given to _wrap_text_for_vertical_video
\* is present in the text it returns, also when the text is cut to two lines
\* and truncated with an ellipsis.
C21_GlyphsKept ==
    (mode = "wrap" /\ fn_pc = "returned") =>
        GlyphCount(fn_ret) = GlyphCount(fn_arg)

\* the number of emoji glyphs a text starts with
LeadingGlyphs(s) ==
    Cardinality({k \in DOMAIN s : \A j \in 1..k : s[j] = "E"})

\* the text after the leading glyphs and the blank that may follow them
AfterGlyphs(s) ==
    LET g == LeadingGlyphs(s)
    IN  IF g < Len(s) /\ s[g + 1] = " "
        THEN SubSeq(s, g + 2, Len(s)) ELSE SubSeq(s, g + 1, Len(s))

\* leading glyphs followed by 45 characters of plain text
IsCaption(s) ==
    /\ LeadingGlyphs(s) >= 1
    /\ Len(AfterGlyphs(s)) = 45
    /\ \A k \in DOMAIN AfterGlyphs(s) : AfterGlyphs(s)[k] \in {"a", " "}
    /\ AfterGlyphs(s)[1] = "a"
    /\ AfterGlyphs(s)[45] = "a"

\* the last line of a wrapped text
LastLine(s) ==
    LET breaks == {k \in DOMAIN s : s[k] = "NL"}
        from   == IF breaks = {} THEN 1
                  ELSE 1 + CHOOSE k \in breaks : \A m \in breaks : m <= k
    IN  SubSeq(s, from, Len(s))

EndsWithEllipsis(line) ==
    /\ Len(line) >= 3
    /\ SubSeq(line, Len(line) - 2, Len(line)) = Ellipsis

\* C22: a caption of leading emoji glyphs followed by 45 characters of plain
\* text, however the 45 characters split into words, wraps with a budget of
\* 20 into exactly 2 lines; the second line ends with an ellipsis and has at
\* most 20 characters without glyphs, and the leading glyphs are kept.
C22_CaptionWrapsToTwoLines ==
    (mode = "wrap" /\ fn_pc = "returned" /\ IsCaption(fn_arg)) =>
        /\ LineCount(fn_ret) = 2
        /\ EndsWithEllipsis(LastLine(fn_ret))
        /\ Len(TextOnly(LastLine(fn_ret))) <= MaxCharsPerLine
        /\ LeadingGlyphs(fn_ret) = LeadingGlyphs(fn_arg)

\* C27: the crop window _calculate_crop_params returns for positive width
\* and height is not empty and lies inside the source frame.
C27_CropWindowInsideFrame ==
    (mode = "crop" /\ fn_pc = "returned") =>
        /\ fn_ret.w >= 1
        /\ fn_ret.h >= 1
        /\ fn_ret.x >= 0
        /\ fn_ret.y >= 0
        /\ fn_ret.x + fn_ret.w <= fn_arg.width
        /\ fn_ret.y + fn_ret.h <= fn_arg.height

\* the labels of the streams of the input files
InputStreams == {"0:v", "1:v", "0:a"}

\* how often a label is consumed, by the stages of a plan and by the mapping
Consumptions(f, maps, label) ==
    Cardinality({<<k, j>> \in (DOMAIN f) \X (1..2) :
                    j \in DOMAIN f[k].ins /\ f[k].ins[j] = label})
    + Cardinality({j \in DOMAIN maps : maps[j] = label})

\* C26: whether or not there is a logo stage and whether or not there are
\* compiled overlays, the filter plan of the render is one chain: the first
\* stage consumes [0:v], every later stage consumes the label the stage
\* before it produced and no other produced label, every produced label is
\* consumed exactly once, and the output mapping names the last label.
C26_FilterPlanIsOneChain ==
    \A i \in Threads :
        (cmd[i] # NoCmd /\ cmd[i].filter_complex # <<>>) =>
            LET f == cmd[i].filter_complex
                produced == {f[k].out : k \in DOMAIN f}
            IN  /\ f[1].ins = <<"0:v">>
                /\ \A k \in 2..Len(f) :
                      /\ f[k].ins[1] = f[k - 1].out
                      /\ \A j \in 2..Len(f[k].ins) :
                            f[k].ins[j] \in InputStreams \ {"0:v"}
                /\ Cardinality(produced) = Len(f)
                /\ \A label \in produced :
                      Consumptions(f, cmd[i].maps, label) = 1
                /\ cmd[i].maps[1] = f[Len(f)].out

\* C26 witness: a plan of three stages, with the logo and the overlays
C26_Witness ==
    \E i \in Threads :
        /\ cmd[i] # NoCmd
        /\ Len(cmd[i].filter_complex) = 3
        /\ cmd[i].filter_complex[2].ins = <<"cropped", "1:v">>
        /\ cmd[i].filter_complex[3].ins = <<"with_logo">>
        /\ cmd[i].maps[1] = "final"

\* the frame a base stage delivers: scaled if it scales, else as cropped
DeliveredFrame(base_ops) ==
    LET last == base_ops[Len(base_ops)]
    IN  [w |-> last.w, h |-> last.h]

\* C30: the logo is placed from the dimensions of the frame it is composited
\* onto, the frame after the crop and the scale: in a corner its box of side
\* logoSize lies exactly margin pixels from the two edges of that corner,
\* 'center' centres it, and the box lies inside the frame.
C30_LogoPlacedInCompositedFrame ==
    (mode = "logo" /\ fn_pc = "returned" /\ LogoPosition(cfg) \in Positions) =>
        LET frame == DeliveredFrame(fn_ret[1].ops)
            logo  == fn_ret[2].ops[1]
            logoSize == (Min(frame.w, frame.h) * LogoSizePercent) \div 100
            position == LogoPosition(cfg)
            left   == logo.x
            top    == logo.y
            right  == frame.w - (logo.x + logoSize)
            bottom == frame.h - (logo.y + logoSize)
        IN  /\ position = "top-left" => left = LogoMargin /\ top = LogoMargin
            /\ position = "top-right" => right = LogoMargin /\ top = LogoMargin
            /\ position = "bottom-left" => left = LogoMargin /\ bottom = LogoMargin
            /\ position = "bottom-right" => right = LogoMargin /\ bottom = LogoMargin
            /\ position = "center" =>
                  /\ left - right \in {-1, 0}
                  /\ top - bottom \in {-1, 0}
            /\ left >= 0 /\ top >= 0 /\ right >= 0 /\ bottom >= 0

\* C29: cleanup_temp_files(video) removes only temp artifacts of that video:
\* no temp file of another video, also not of one whose base name starts
\* with this video's base name and '_', and no temp file of a video that is
\* still being processed. (The scratch file concat_list.txt, which belongs
\* to no video, is left out of the statement.)
C29_CleanupRemovesOnlyOwnArtifacts ==
    [][(mode = "cleanup" /\ fn_pc = "call" /\ fn_pc' = "returned") =>
          \A p \in (DOMAIN fs) \ (DOMAIN fs') :
              p # ConcatList =>
                  /\ p \in TempFilesOf(fn_arg)
                  /\ \A u \in processing_files \ {fn_arg} :
                        p \notin TempFilesOf(u)]_vars

\* C23: the normalized outro carries synthesized silence only if the outro
\* asset has no audio stream; an outro with audio of its own keeps it in the
\* normalized copy and so in the second part of the stitched file.
C23_OutroKeepsItsAudio ==
    (mode = "outro" /\ fn_ret.temp_outro # NoMedia) =>
        /\ fn_ret.temp_outro.audio = "silence" => fn_arg.outro.audio = "none"
        /\ fn_arg.outro.audio # "none" =>
              /\ fn_ret.temp_outro.audio = fn_arg.outro.audio
              /\ fn_ret.returned = "final_path" =>
                    fn_ret.final.audio[2] = fn_arg.outro.audio

\* the pipeline positions at which no process_video call is under way
AtRest == {"idle", "done", "failed"}

\* C24: process_batch calls process_video for every supplied video exactly
\* once, in the order supplied and one at a time; a video that fails does
\* not keep the later ones from being attempted; when it returns, every
\* supplied path is mapped to its output path or to None, and successful +
\* failed is the number of videos supplied.
C24_BatchAttemptsEveryVideo ==
    mode = "batch" =>
        /\ Len(attempts) <= Len(video_paths)
        /\ attempts = SubSeq(video_paths, 1, Len(attempts))
        /\ Cardinality({i \in Threads : pc[i] \notin AtRest}) <= 1
        /\ batch_pc = "returned" =>
              /\ attempts = video_paths
              /\ successful + failed = Len(video_paths)
              /\ \A k \in DOMAIN video_paths :
                    /\ video_paths[k] \in DOMAIN results
                    /\ \/ results[video_paths[k]] = NoPath
                       \/ /\ results[video_paths[k]].dir = "output"
                          /\ IsPrefix(Stem(video_paths[k]),
                                      results[video_paths[k]].name)

\* C24 witness: a batch of two videos returned; the first video failed and
\* the second was processed
C24_Witness ==
    /\ mode = "batch"
    /\ batch_pc = "returned"
    /\ Len(video_paths) = 2
    /\ video_paths[1] # video_paths[2]
    /\ results[video_paths[1]] = NoPath
    /\ results[video_paths[2]] # NoPath
    /\ failed = 1
    /\ successful = 1

\* how often a file has been passed to the callback: by worker threads the
\* observer started, and by the start-up scan
HandedByThreads(v) ==
    Cardinality({i \in Threads : video[i] = v /\ pc[i] \in {"transcribe", "done"}})

HandedByScan(v) ==
    Cardinality({k \in DOMAIN scan_handed : scan_handed[k] = v})

\* C28: however the created and moved events the observer delivers
\* interleave with the start-up scan of existing files, no file path is
\* passed to the processing callback more than once.
C28_CallbackAtMostOncePerFile ==
    mode = "startup" =>
        \A v \in Videos : HandedByThreads(v) + HandedByScan(v) <= 1

\* C25: when process_video_background returns, whether the pipeline
\* succeeded or raised at any step, is_processing is False and the stage is
\* 'Complete!' exactly when the pipeline returned an output path, and
\* 'Failed' or 'Error' otherwise.
C25_StatusWhenBackgroundJobReturns ==
    [][\A i \in Threads :
          (mode = "dashboard" /\ pc[i] = "bg_finally" /\ pc'[i] # "bg_finally") =>
              /\ processing_status'.is_processing = FALSE
              /\ processing_status'.stage = "Complete!" <=> result'[i] # NoPath
              /\ result'[i] = NoPath =>
                    processing_status'.stage \in {"Failed", "Error"}]_vars

====
